---- MODULE Spec2Model ----
(***************************************************************************)
(* Model of workers.py: worker(iterations), the Monte Carlo sampling       *)
(* kernel.                                                                 *)
(*                                                                         *)
(*   simulations = np.linalg.norm(np.random.rand(iterations,2), axis = 1)  *)
(*   return np.count_nonzero(simulations < 1)                              *)
(*                                                                         *)
(* np.random.rand draws from numpy's process-wide generator.  The          *)
(* generator is modelled as a position `pos` on a `tape` of uniform draws: *)
(* the tape is what the generator yields from its seed state, revealed as  *)
(* it is consumed, and a position always yields the same draw again.       *)
(* Draws are fixed-point numbers k/Grid, held as the integer k; squares    *)
(* and sums of squares are exact at this resolution.                       *)
(*                                                                         *)
(* Threads call worker concurrently.  One call to np.random.rand is atomic *)
(* (the generator fills the array under its lock); the steps of different  *)
(* invocations interleave freely otherwise.                                *)
(***************************************************************************)
EXTENDS Integers, Sequences, FiniteSets

VARIABLES
    tape,         \* the draws the generator yields from its seed state
    pos,          \* generator state: draws consumed since the seed state
    pc,           \* per thread: position in worker
    arg,          \* per thread: the argument `iterations`
    sample,       \* per thread: the array np.random.rand returned
    simulations,  \* per thread: the local `simulations`
    result,       \* per thread: <<>> or <<returned value>>
    err,          \* per thread: the exception raised, or "none"
    posAtCall,    \* per thread: generator state when worker was called
    start,        \* per thread: generator state when rand filled the array
    consumed,     \* per thread: draws this invocation took from the generator
    randCalls,    \* per thread: calls of np.random.rand by this invocation
    log           \* completed successful calls: [n, start, res]

vars == <<tape, pos, pc, arg, sample, simulations, result, err,
          posAtCall, start, consumed, randCalls, log>>

locals == <<sample, simulations, result, err>>

----------------------------------------------------------------------------
(* Bounds *)

MaxIter == 2          \* largest valid `iterations` a caller passes
MaxLog == 3           \* counts the sequential caller collects
Grid == 5             \* resolution of a draw: the value k stands for k/Grid

TapeCap == 2 * MaxIter    \* draws taken from one seed state

Threads == {1, 2}

\* Values a draw takes, all in [0,1) as np.random.rand yields them: with
\* Grid = 5 they are 0.0, 0.6 and 0.8, so that (0.6, 0.8) lies at distance
\* exactly 1, (0.8, 0.8) outside and (0.6, 0.6) inside the unit circle.
DrawVals == {0, 3, 4}

\* An argument is [ty, h]: its Python type and twice its value, so that
\* 2.5 is [ty |-> "float", h |-> 5].
IntArg(k) == [ty |-> "int", h |-> 2 * k]
FloatArg(h) == [ty |-> "float", h |-> h]

Args == {IntArg(k) : k \in -1..MaxIter} \cup {FloatArg(5), FloatArg(-5), FloatArg(4)}

NoArg == IntArg(0)

IsNonNegInt(a) == a.ty = "int" /\ a.h >= 0
IsNegative(a) == a.h < 0
IsNonIntegral(a) == a.h % 2 = 1
Iterations(a) == a.h \div 2

----------------------------------------------------------------------------
(* np.random.rand(iterations, 2) *)

\* Mutant: an empty batch is rejected as well.
ShapeErrorRejectsZero(a) ==
    IF a.ty # "int" THEN "TypeError"
    ELSE IF a.h <= 0 THEN "ValueError"
    ELSE "none"

\* What np.random.rand raises for the shape (iterations, 2), if anything.
\* The shape is converted to integers first (a float is a TypeError
\* whatever its value), then the array is allocated (a negative dimension
\* is a ValueError); only then is the generator asked to fill it.
ShapeError(a) ==
    IF a.ty # "int" THEN "TypeError"
    ELSE IF a.h < 0 THEN "ValueError"
    ELSE "none"

\* Mutant: draws a spare value with every batch.
SizeSpare(n) == n * 2 + 1

\* Number of doubles in an array of shape (n, 2).
Size(n) == n * 2

\* Mutant: column-major fill, all x first, then all y.
ReshapeColumnMajor(d, n) == [i \in 1..n |-> <<d[i], d[n + i]>>]

\* d[1..Size(n)] in C order as n rows (x, y).
Reshape(d, n) == [i \in 1..n |-> <<d[2 * i - 1], d[2 * i]>>]

\* The k draws the generator yields from state p on tape tp.
Draws(tp, p, k) == [i \in 1..k |-> tp[p + i]]

\* The tapes that agree with tape and reach position upto.
Extensions(upto) ==
    IF upto <= Len(tape) THEN {tape}
    ELSE {tape \o e : e \in [1..(upto - Len(tape)) -> DrawVals]}

----------------------------------------------------------------------------
(* np.linalg.norm(a, axis = 1) and np.count_nonzero(simulations < 1) *)

\* Integer part of the square root.
ISqrt(s) == CHOOSE r \in 0..s : r * r <= s /\ (r + 1) * (r + 1) > s

RECURSIVE SumSq(_, _, _)
SumSq(a, j, i) == IF i = 0 THEN 0 ELSE a[i][j] * a[i][j] + SumSq(a, j, i - 1)

\* Mutant: axis = 0, the norm of each of the two columns.
LinalgNormAxis0(a) == [j \in 1..2 |-> ISqrt(SumSq(a, j, Len(a)))]

\* axis = 1: the Euclidean norm of each row, in units of 1/Grid.  The
\* integer part decides the comparison with 1.0 exactly:
\* sqrt(s) < Grid iff s < Grid * Grid iff ISqrt(s) < Grid.
LinalgNorm(a) == [i \in 1..Len(a) |-> ISqrt(a[i][1] * a[i][1] + a[i][2] * a[i][2])]

\* 1.0 in units of 1/Grid.
One == Grid

\* Mutant: simulations <= 1.
LessEqOne(d) == d <= One

\* simulations < 1, elementwise.
LessThanOne(d) == d < One

Mask(s) == [i \in 1..Len(s) |-> LessThanOne(s[i])]

CountNonzero(m) == Cardinality({i \in 1..Len(m) : m[i]})

----------------------------------------------------------------------------
(* State machine *)

Init ==
    /\ tape = <<>>
    /\ pos = 0
    /\ pc = [t \in Threads |-> "idle"]
    /\ arg = [t \in Threads |-> NoArg]
    /\ sample = [t \in Threads |-> <<>>]
    /\ simulations = [t \in Threads |-> <<>>]
    /\ result = [t \in Threads |-> <<>>]
    /\ err = [t \in Threads |-> "none"]
    /\ posAtCall = [t \in Threads |-> 0]
    /\ start = [t \in Threads |-> 0]
    /\ consumed = [t \in Threads |-> 0]
    /\ randCalls = [t \in Threads |-> 0]
    /\ log = {}

Idle(t) == pc[t] = "idle"

Ended(t) == pc[t] \in {"returned", "raised"}

\* Draws that invocations already called will still take.
Pending ==
    LET need(t) == IF pc[t] = "called" /\ ShapeError(arg[t]) = "none"
                   THEN Size(Iterations(arg[t])) ELSE 0
    IN  need(1) + need(2)

\* A thread calls worker(a).
Call(t, a) ==
    /\ Idle(t)
    /\ Cardinality(log) < MaxLog
    /\ IsNonNegInt(a) => pos + Pending + Size(Iterations(a)) <= TapeCap
    /\ pc' = [pc EXCEPT ![t] = "called"]
    /\ arg' = [arg EXCEPT ![t] = a]
    /\ sample' = [sample EXCEPT ![t] = <<>>]
    /\ simulations' = [simulations EXCEPT ![t] = <<>>]
    /\ result' = [result EXCEPT ![t] = <<>>]
    /\ err' = [err EXCEPT ![t] = "none"]
    /\ posAtCall' = [posAtCall EXCEPT ![t] = pos]
    /\ start' = [start EXCEPT ![t] = pos]
    /\ consumed' = [consumed EXCEPT ![t] = 0]
    /\ randCalls' = [randCalls EXCEPT ![t] = 0]
    /\ UNCHANGED <<tape, pos, log>>

\* Mutant: the size is clamped or rounded instead of being rejected.
RandClamping(t) ==
    /\ pc[t] = "called"
    /\ randCalls' = [randCalls EXCEPT ![t] = @ + 1]
    /\ LET n == IF arg[t].h < 0 THEN 0 ELSE Iterations(arg[t])
       IN  /\ \E tp \in Extensions(pos + Size(n)) :
                /\ tape' = tp
                /\ sample' = [sample EXCEPT ![t] = Reshape(Draws(tp, pos, Size(n)), n)]
           /\ pos' = pos + Size(n)
    /\ start' = [start EXCEPT ![t] = pos]
    /\ consumed' = [consumed EXCEPT ![t] = pos' - pos]
    /\ pc' = [pc EXCEPT ![t] = "norm"]
    /\ UNCHANGED <<arg, simulations, result, err, posAtCall, log>>

\* Mutant: the array is filled before the shape is rejected.
RandDrawsFirst(t) ==
    /\ pc[t] = "called"
    /\ randCalls' = [randCalls EXCEPT ![t] = @ + 1]
    /\ LET n == IF ShapeError(arg[t]) = "none" THEN Iterations(arg[t]) ELSE 1
       IN  /\ \E tp \in Extensions(pos + Size(n)) :
                /\ tape' = tp
                /\ sample' = [sample EXCEPT ![t] =
                                 IF ShapeError(arg[t]) = "none"
                                 THEN Reshape(Draws(tp, pos, Size(n)), n)
                                 ELSE <<>>]
           /\ pos' = pos + Size(n)
    /\ start' = [start EXCEPT ![t] = pos]
    /\ consumed' = [consumed EXCEPT ![t] = pos' - pos]
    /\ IF ShapeError(arg[t]) = "none"
       THEN /\ pc' = [pc EXCEPT ![t] = "norm"]
            /\ err' = err
       ELSE /\ pc' = [pc EXCEPT ![t] = "raised"]
            /\ err' = [err EXCEPT ![t] = ShapeError(arg[t])]
    /\ UNCHANGED <<arg, simulations, result, posAtCall, log>>

\* Mutant: a fresh, unseeded generator per call; the draws are not those
\* of the process-wide generator's state.
RandUnseeded(t) ==
    /\ pc[t] = "called"
    /\ randCalls' = [randCalls EXCEPT ![t] = @ + 1]
    /\ IF ShapeError(arg[t]) # "none"
       THEN /\ pc' = [pc EXCEPT ![t] = "raised"]
            /\ err' = [err EXCEPT ![t] = ShapeError(arg[t])]
            /\ UNCHANGED <<tape, pos, sample, start>>
       ELSE LET n == Iterations(arg[t])
            IN  /\ \E tp \in Extensions(pos + Size(n)) : tape' = tp
                /\ \E d \in [1..Size(n) -> DrawVals] :
                     sample' = [sample EXCEPT ![t] = Reshape(d, n)]
                /\ pos' = pos + Size(n)
                /\ start' = [start EXCEPT ![t] = pos]
                /\ pc' = [pc EXCEPT ![t] = "norm"]
                /\ err' = err
    /\ consumed' = [consumed EXCEPT ![t] = pos' - pos]
    /\ UNCHANGED <<arg, simulations, result, posAtCall, log>>

\* Mutant: iterations = 0 is answered without calling np.random.rand.
RandSkipsEmpty(t) ==
    /\ pc[t] = "called"
    /\ randCalls' = [randCalls EXCEPT ![t] = IF arg[t] = IntArg(0) THEN @ ELSE @ + 1]
    /\ IF ShapeError(arg[t]) # "none"
       THEN /\ pc' = [pc EXCEPT ![t] = "raised"]
            /\ err' = [err EXCEPT ![t] = ShapeError(arg[t])]
            /\ UNCHANGED <<tape, pos, sample, start>>
       ELSE LET n == Iterations(arg[t])
            IN  /\ \E tp \in Extensions(pos + Size(n)) :
                     /\ tape' = tp
                     /\ sample' = [sample EXCEPT ![t] =
                                      Reshape(Draws(tp, pos, Size(n)), n)]
                /\ pos' = pos + Size(n)
                /\ start' = [start EXCEPT ![t] = pos]
                /\ pc' = [pc EXCEPT ![t] = "norm"]
                /\ err' = err
    /\ consumed' = [consumed EXCEPT ![t] = pos' - pos]
    /\ UNCHANGED <<arg, simulations, result, posAtCall, log>>

\* np.random.rand(iterations, 2): one call.  It rejects the shape, or fills
\* the array with the next Size(n) draws of the process-wide generator and
\* advances the generator past them.
Rand(t) ==
    /\ pc[t] = "called"
    /\ randCalls' = [randCalls EXCEPT ![t] = @ + 1]
    /\ IF ShapeError(arg[t]) # "none"
       THEN /\ pc' = [pc EXCEPT ![t] = "raised"]
            /\ err' = [err EXCEPT ![t] = ShapeError(arg[t])]
            /\ UNCHANGED <<tape, pos, sample, start>>
       ELSE LET n == Iterations(arg[t])
            IN  /\ \E tp \in Extensions(pos + Size(n)) :
                     /\ tape' = tp
                     /\ sample' = [sample EXCEPT ![t] =
                                      Reshape(Draws(tp, pos, Size(n)), n)]
                /\ pos' = pos + Size(n)
                /\ start' = [start EXCEPT ![t] = pos]
                /\ pc' = [pc EXCEPT ![t] = "norm"]
                /\ err' = err
    /\ consumed' = [consumed EXCEPT ![t] = pos' - pos]
    /\ UNCHANGED <<arg, simulations, result, posAtCall, log>>

\* simulations = np.linalg.norm(<the array>, axis = 1)
Norm(t) ==
    /\ pc[t] = "norm"
    /\ simulations' = [simulations EXCEPT ![t] = LinalgNorm(sample[t])]
    /\ pc' = [pc EXCEPT ![t] = "count"]
    /\ UNCHANGED <<tape, pos, arg, sample, result, err,
                   posAtCall, start, consumed, randCalls, log>>

\* return np.count_nonzero(simulations < 1); the locals die with the frame.
Return(t) ==
    /\ pc[t] = "count"
    /\ result' = [result EXCEPT ![t] = <<CountNonzero(Mask(simulations[t]))>>]
    /\ sample' = [sample EXCEPT ![t] = <<>>]
    /\ simulations' = [simulations EXCEPT ![t] = <<>>]
    /\ pc' = [pc EXCEPT ![t] = "returned"]
    /\ UNCHANGED <<tape, pos, arg, err, posAtCall, start, consumed, randCalls, log>>

\* The caller takes what the invocation returned (or catches what it
\* raised), notes a returned count, and the thread is free again.
Collect(t) ==
    /\ Ended(t)
    /\ log' = IF pc[t] = "returned"
              THEN log \cup {[n |-> Iterations(arg[t]), start |-> start[t],
                              res |-> result[t][1]]}
              ELSE log
    /\ pc' = [pc EXCEPT ![t] = "idle"]
    /\ arg' = [arg EXCEPT ![t] = NoArg]
    /\ result' = [result EXCEPT ![t] = <<>>]
    /\ err' = [err EXCEPT ![t] = "none"]
    /\ posAtCall' = [posAtCall EXCEPT ![t] = 0]
    /\ start' = [start EXCEPT ![t] = 0]
    /\ consumed' = [consumed EXCEPT ![t] = 0]
    /\ randCalls' = [randCalls EXCEPT ![t] = 0]
    /\ UNCHANGED <<tape, pos, sample, simulations>>

\* The caller, with no invocation in flight, puts the generator back to
\* its seed state (np.random.seed with the same seed).
Seed ==
    /\ \A t \in Threads : Idle(t)
    /\ pos > 0
    /\ pos' = 0
    /\ UNCHANGED <<tape, pc, arg, locals, posAtCall, start, consumed, randCalls, log>>

Step(t) == Rand(t) \/ Norm(t) \/ Return(t)

\* Two threads each call worker once, concurrently, on the process-wide
\* generator.
Next ==
    \/ \E t \in Threads, a \in Args : Call(t, a)
    \/ \E t \in Threads : Rand(t)
    \/ \E t \in Threads : Norm(t)
    \/ \E t \in Threads : Return(t)

Spec == Init /\ [][Next]_vars

\* One thread calls worker again and again, collecting the counts and
\* reseeding in between.
Main == 1

SeqNext ==
    \/ \E a \in Args : Call(Main, a)
    \/ Rand(Main)
    \/ Norm(Main)
    \/ Return(Main)
    \/ Collect(Main)
    \/ Seed

SeqSpec == Init /\ [][SeqNext]_vars

\* Every invocation in flight is scheduled again.
FairSpec == Spec /\ \A t \in Threads : WF_vars(Step(t))

----------------------------------------------------------------------------
(* Properties *)

N(t) == Iterations(arg[t])

Returned(t) == pc[t] = "returned"

\* The claims' "negative or non-integral" arguments.
Invalid(a) == IsNegative(a) \/ IsNonIntegral(a)

\* Whether the point drawn at tape positions p+1, p+2 lies strictly inside
\* the unit circle, by its squared distance.
InsideAt(p) == tape[p + 1] * tape[p + 1] + tape[p + 2] * tape[p + 2] < Grid * Grid

\* The number of the n points drawn from generator state p that lie
\* strictly inside the unit circle.
InsideCount(p, n) == Cardinality({i \in 1..n : InsideAt(p + 2 * (i - 1))})

\* The calls that have returned: those the caller has collected and those
\* it is about to.
Completed ==
    log \cup {[n |-> N(t), start |-> start[t], res |-> result[t][1]] :
                t \in {u \in Threads : Returned(u)}}

\* C1: a returned count r satisfies 0 <= r <= iterations.
C1_ResultInRange ==
    \A t \in Threads :
        Returned(t) => /\ Len(result[t]) = 1
                       /\ result[t][1] \in 0..N(t)

C1_Witness ==
    \E t \in Threads : Returned(t) /\ N(t) = 2 /\ result[t] = <<1>>

\* C2: the returned count is exactly the number of drawn points (x_i, y_i),
\* in drawing order, with x_i^2 + y_i^2 < 1 strictly.
C2_CountsStrictlyInside ==
    \A t \in Threads :
        Returned(t) => result[t] = <<InsideCount(start[t], N(t))>>

\* One call drew (0.0, 0.0) and counted it; another drew a point at
\* distance exactly 1 and did not.
C2_Witness ==
    \E t, u \in Threads :
        /\ Returned(t) /\ N(t) = 1 /\ result[t] = <<1>>
        /\ tape[start[t] + 1] = 0 /\ tape[start[t] + 2] = 0
        /\ Returned(u) /\ N(u) = 1 /\ result[u] = <<0>>
        /\ tape[start[u] + 1] * tape[start[u] + 1]
             + tape[start[u] + 2] * tape[start[u] + 2] = Grid * Grid

\* C3 as stated: worker(0) returns 0, makes no call to the random
\* generator and takes no draw from it.
C3_NoCallForZero ==
    \A t \in Threads :
        (Returned(t) /\ arg[t] = IntArg(0)) =>
            /\ result[t] = <<0>>
            /\ randCalls[t] = 0
            /\ consumed[t] = 0

\* C3 amended: worker(0) returns 0 and takes no draw from the generator;
\* it does call np.random.rand once, for an empty array.
C3_NoDrawForZero ==
    \A t \in Threads :
        (Returned(t) /\ arg[t] = IntArg(0)) =>
            /\ result[t] = <<0>>
            /\ randCalls[t] = 1
            /\ consumed[t] = 0

C3_Witness ==
    \E t \in Threads :
        /\ Returned(t) /\ arg[t] = IntArg(0) /\ result[t] = <<0>>
        /\ pos = 0 /\ tape = <<>>

\* C4 as stated: a negative and a non-integral argument fail with one and
\* the same error kind, and neither returns a count.
C4_OneErrorKind ==
    /\ \A t \in Threads : (Invalid(arg[t]) /\ Ended(t)) => pc[t] = "raised"
    /\ \A t, u \in Threads :
         (Invalid(arg[t]) /\ Invalid(arg[u]) /\ pc[t] = "raised" /\ pc[u] = "raised")
            => err[t] = err[u]

\* C4 amended: a negative or non-integral argument makes worker raise and
\* never return a count or draw a clamped or rounded batch; the error is a
\* ValueError for a negative integer and a TypeError for a float.
C4_RaisesByType ==
    \A t \in Threads :
        (Invalid(arg[t]) /\ pc[t] # "called") =>
            /\ pc[t] = "raised"
            /\ result[t] = <<>>
            /\ sample[t] = <<>>
            /\ err[t] = IF arg[t].ty = "int" THEN "ValueError" ELSE "TypeError"

C4_Witness ==
    \E t, u \in Threads :
        /\ arg[t] = IntArg(-1) /\ pc[t] = "raised" /\ err[t] = "ValueError"
        /\ arg[u] = FloatArg(5) /\ pc[u] = "raised" /\ err[u] = "TypeError"

\* C5: when worker fails on an invalid argument, the invocation has taken
\* no draw from the generator and has computed nothing.
C5_RejectedBeforeDraw ==
    \A t \in Threads :
        pc[t] = "raised" =>
            /\ consumed[t] = 0
            /\ sample[t] = <<>>
            /\ simulations[t] = <<>>
            /\ result[t] = <<>>

C5_Witness ==
    \E t \in Threads :
        /\ pc[t] = "raised" /\ Invalid(arg[t])
        /\ pos = 0 /\ tape = <<>>

\* C6: two calls with the same iterations, each started from the same
\* generator state, return the same count.
C6_Deterministic ==
    \A r1, r2 \in Completed :
        (r1.n = r2.n /\ r1.start = r2.start) => r1.res = r2.res

\* A call has been collected, and after a reseed the same call has
\* returned again.
C6_Witness ==
    \E r \in log :
        /\ Returned(Main) /\ N(Main) = r.n /\ start[Main] = r.start
        /\ r.n = 2 /\ r.res = 1

\* The count an invocation returns running alone from the generator state
\* at its call.
SoloCount(t) == InsideCount(posAtCall[t], N(t))

\* C7 as stated: an invocation's result under any interleaving with other
\* invocations is the result it has when it runs alone.
C7_NoInterference ==
    \A t \in Threads : Returned(t) => result[t] = <<SoloCount(t)>>

\* C8: a call with a non-negative integer never raises, and it returns an
\* integer.
C8_ValidTerminates ==
    \A t \in Threads :
        /\ [](IsNonNegInt(arg[t]) => (pc[t] # "raised" /\ err[t] = "none"))
        /\ (pc[t] = "called" /\ IsNonNegInt(arg[t]))
              ~> (Returned(t) /\ Len(result[t]) = 1 /\ result[t][1] \in Int)

C8_Witness ==
    \E t, u \in Threads :
        /\ Returned(t) /\ arg[t] = IntArg(2)
        /\ Returned(u) /\ arg[u] = IntArg(0)

\* What a step of thread t changes besides the generator: nothing of
\* another thread and nothing the caller keeps.
OthersUnchanged(t) ==
    /\ log' = log
    /\ \A u \in Threads \ {t} :
         /\ pc'[u] = pc[u] /\ arg'[u] = arg[u]
         /\ sample'[u] = sample[u] /\ simulations'[u] = simulations[u]
         /\ result'[u] = result[u] /\ err'[u] = err[u]

\* C9: a successful call worker(n) takes exactly 2*n draws from the
\* generator, in one step that advances it by 2*n, and changes nothing
\* else outside its own frame.
C9_OnlyConsumesDraws ==
    /\ [](\A t \in Threads : Returned(t) => consumed[t] = 2 * N(t))
    /\ [][\A t \in Threads :
            (pc[t] \in {"called", "norm", "count"} /\ pc'[t] # pc[t]) =>
               /\ OthersUnchanged(t)
               /\ pos' = IF pc[t] = "called" /\ pc'[t] = "norm"
                         THEN pos + 2 * N(t) ELSE pos
               /\ SubSeq(tape', 1, Len(tape)) = tape]_vars

C9_Witness ==
    \E t \in Threads : Returned(t) /\ N(t) = 2 /\ consumed[t] = 4 /\ pos = 4

\* C10: worker(a) and then worker(b) on the same generator return counts
\* whose sum is what worker(a+b) returns from the same initial state, and
\* worker(n+1) returns worker(n) or worker(n)+1.
C10_Additive ==
    /\ \A r1, r2, r3 \in Completed :
         (/\ r3.start = r1.start
          /\ r2.start = r1.start + 2 * r1.n
          /\ r3.n = r1.n + r2.n) => r3.res = r1.res + r2.res
    /\ \A r1, r2 \in Completed :
         (r2.start = r1.start /\ r2.n = r1.n + 1) => r2.res - r1.res \in {0, 1}

C10_Witness ==
    /\ [n |-> 1, start |-> 0, res |-> 1] \in Completed
    /\ [n |-> 1, start |-> 2, res |-> 0] \in Completed
    /\ [n |-> 2, start |-> 0, res |-> 1] \in Completed

====
